---- MODULE Spec2Model ----
(***************************************************************************)
(* State-machine model of the Snake game of src/src/App.tsx: the React     *)
(* state of App (snake, food, direction, isGameOver, isPaused, score,      *)
(* highScore, speed), the ref lastDirectionRef, and the handlers that      *)
(* change them (moveSnake, handleKeyDown, the ControlButton onClick        *)
(* handlers, the RESUME button and resetGame).                             *)
(*                                                                         *)
(* Every handler runs to completion on the single JavaScript thread and    *)
(* React commits the state it sets before the next handler or timer        *)
(* callback runs, so each handler is one atomic action.                    *)
(***************************************************************************)
EXTENDS Integers, Sequences, FiniteSets, TLC

\* ------------------------------------------------------------ constants
GRID_SIZE == 20

INITIAL_SNAKE == << [x |-> 10, y |-> 10], [x |-> 10, y |-> 11], [x |-> 10, y |-> 12] >>

INITIAL_DIRECTION == [x |-> 0, y |-> -1]

INITIAL_SPEED == 150

\* useState<Point>({ x: 5, y: 5 })
INITIAL_FOOD == [x |-> 5, y |-> 5]

\* s + 10
SCORE_REWARD == 10

\* Math.max(prev - 2, 60)
SPEED_STEP == 2

MIN_SPEED == 60

\* --------------------------------------------------------------- bounds
\* Steps of the snake explored in one session (between two resets).
MaxTicks == 4

\* Half-width of the window of values, around the initial head, from which
\* Math.floor(Math.random() * GRID_SIZE) is drawn (plus the coordinate of
\* the initial food, a cell the bounded snake never reaches).
DrawSpan == 1

\* ---------------------------------------------------------------- state
\* elapsed is the part of the wait of the interval of gameLoopRef that has
\* passed, in WaitParts-ths of speed milliseconds; 0 when no interval is set.
VARIABLES snake, food, direction, isGameOver, isPaused, score, highScore,
          speed, lastDirectionRef, ticks, elapsed

vars == << snake, food, direction, isGameOver, isPaused, score, highScore,
           speed, lastDirectionRef, ticks, elapsed >>

\* -------------------------------------------------------------- helpers
Range(s) == { s[i] : i \in 1..Len(s) }

Max(a, b) == IF a >= b THEN a ELSE b

Up == [x |-> 0, y |-> -1]

Down == [x |-> 0, y |-> 1]

Left == [x |-> -1, y |-> 0]

Right == [x |-> 1, y |-> 0]

Directions == { Up, Down, Left, Right }

\* The exact inverse (180 degrees) of a direction.
Opposite(d) == [x |-> 0 - d.x, y |-> 0 - d.y]

\* Values of Math.floor(Math.random() * GRID_SIZE) that are explored.
RandomDraws ==
  { c \in 0..(GRID_SIZE - 1) :
      \/ c = INITIAL_FOOD.x
      \/ (c >= INITIAL_SNAKE[1].x - DrawSpan /\ c <= INITIAL_SNAKE[1].x + DrawSpan) }

\* The cells { x: Math.floor(...), y: Math.floor(...) } that are explored.
WindowCells == [x : RandomDraws, y : RandomDraws]

\* generateFood(currentSnake), given the cells draws that Math.random can
\* produce: the cells the rejection loop can return, i.e. the draws that are
\* not on the snake.  The loop has no iteration cap: when no draw is free it
\* never returns and the set is empty.
generateFood_NoCheck(currentSnake, draws) == draws

generateFood(currentSnake, draws) ==
  { newFood \in draws :
      ~ (\E i \in 1..Len(currentSnake) :
            currentSnake[i].x = newFood.x /\ currentSnake[i].y = newFood.y) }

\* a % n of JavaScript: the remainder takes the sign of a.
JsRem(a, n) == IF a >= 0 THEN a % n ELSE 0 - ((0 - a) % n)

\* newHead of moveSnake: one cell from head in direction dir, wrapped.
NewHead_NoOffset(head, dir) ==
  [x |-> JsRem(head.x + dir.x, GRID_SIZE),
   y |-> JsRem(head.y + dir.y, GRID_SIZE)]

NewHead(head, dir) ==
  [x |-> JsRem(head.x + dir.x + GRID_SIZE, GRID_SIZE),
   y |-> JsRem(head.y + dir.y + GRID_SIZE, GRID_SIZE)]

\* prevSnake.some(segment => segment.x === newHead.x && segment.y === newHead.y)
CollidesWithSelf_SkipTail(prevSnake, newHead) ==
  \E i \in 1..(Len(prevSnake) - 1) :
     prevSnake[i].x = newHead.x /\ prevSnake[i].y = newHead.y

CollidesWithSelf_HeadOnly(prevSnake, newHead) ==
  prevSnake[1].x = newHead.x /\ prevSnake[1].y = newHead.y

CollidesWithSelf(prevSnake, newHead) ==
  \E i \in 1..Len(prevSnake) :
     prevSnake[i].x = newHead.x /\ prevSnake[i].y = newHead.y

\* newSnake.pop(): the snake without its last element.
Pop_Keep(newSnake) == newSnake

Pop(newSnake) == SubSeq(newSnake, 1, Len(newSnake) - 1)

\* setSpeed(prev => Math.max(prev - 2, 60))
NextSpeed_NoFloor(prev) == prev - SPEED_STEP

NextSpeed(prev) == Max(prev - SPEED_STEP, MIN_SPEED)

\* const newScore = s + 10
NewScore_Twice(s) == s + SCORE_REWARD + SCORE_REWARD

NewScore(s) == s + SCORE_REWARD

\* if (newScore > highScore) setHighScore(newScore)
NextHighScore_Always(newScore, hs) == newScore

NextHighScore_Lag(newScore, hs) == IF newScore > hs THEN newScore - SCORE_REWARD ELSE hs

NextHighScore(newScore, hs) == IF newScore > hs THEN newScore ELSE hs

\* --------------------------------------------------------------- Init
Init ==
  /\ snake = INITIAL_SNAKE
  /\ food = INITIAL_FOOD
  /\ direction = INITIAL_DIRECTION
  /\ isGameOver = FALSE
  /\ isPaused = TRUE
  /\ score = 0
  /\ highScore = 0
  /\ speed = INITIAL_SPEED
  /\ lastDirectionRef = INITIAL_DIRECTION
  /\ ticks = 0
  /\ elapsed = 0

\* ------------------------------------------------------------- actions
\* resetGame, given the cells Math.random can produce.  The function has no
\* guard of its own; the page offers it (TRY AGAIN) only on the game-over
\* overlay, so taking it in every state covers every call the page can make.
resetGame_KeepSpeed(draws) ==
  /\ snake' = INITIAL_SNAKE
  /\ direction' = INITIAL_DIRECTION
  /\ lastDirectionRef' = INITIAL_DIRECTION
  /\ \E newFood \in generateFood(INITIAL_SNAKE, draws) : food' = newFood
  /\ isGameOver' = FALSE
  /\ isPaused' = FALSE
  /\ score' = 0
  /\ ticks' = 0
  /\ elapsed' = 0
  /\ UNCHANGED << highScore, speed >>

resetGame_Paused(draws) ==
  /\ snake' = INITIAL_SNAKE
  /\ direction' = INITIAL_DIRECTION
  /\ lastDirectionRef' = INITIAL_DIRECTION
  /\ \E newFood \in generateFood(INITIAL_SNAKE, draws) : food' = newFood
  /\ isGameOver' = FALSE
  /\ isPaused' = TRUE
  /\ score' = 0
  /\ speed' = INITIAL_SPEED
  /\ ticks' = 0
  /\ elapsed' = 0
  /\ UNCHANGED highScore

resetGame(draws) ==
  /\ snake' = INITIAL_SNAKE
  /\ direction' = INITIAL_DIRECTION
  /\ lastDirectionRef' = INITIAL_DIRECTION
  /\ \E newFood \in generateFood(INITIAL_SNAKE, draws) : food' = newFood
  /\ isGameOver' = FALSE
  /\ isPaused' = FALSE
  /\ score' = 0
  /\ speed' = INITIAL_SPEED
  /\ ticks' = 0
  /\ elapsed' = 0
  /\ UNCHANGED highScore

\* The updater passed to setSnake in moveSnake, with the state it sets.
MoveUpdate(draws) ==
  LET head == snake[1]
      newHead == NewHead(head, direction)
      newSnake == << newHead >> \o snake
  IN  IF CollidesWithSelf(snake, newHead)
      THEN /\ isGameOver' = TRUE
           /\ snake' = snake
           /\ UNCHANGED << food, score, highScore, speed >>
      ELSE IF newHead.x = food.x /\ newHead.y = food.y
      THEN /\ score' = NewScore(score)
           /\ highScore' = NextHighScore(NewScore(score), highScore)
           /\ \E newFood \in generateFood(newSnake, draws) : food' = newFood
           /\ speed' = NextSpeed(speed)
           /\ snake' = newSnake
           /\ UNCHANGED isGameOver
      ELSE /\ snake' = Pop(newSnake)
           /\ UNCHANGED << food, score, highScore, speed, isGameOver >>

\* moveSnake, the interval callback, given the cells Math.random can produce.
\* ticks counts the steps made in the session.
moveSnake_IgnorePause(draws) ==
  IF isGameOver
  THEN UNCHANGED vars
  ELSE /\ MoveUpdate(draws)
       /\ lastDirectionRef' = direction
       /\ ticks' = ticks + 1
       /\ elapsed' = 0
       /\ UNCHANGED << direction, isPaused >>

moveSnake_NoRecord(draws) ==
  IF isPaused \/ isGameOver
  THEN UNCHANGED vars
  ELSE /\ MoveUpdate(draws)
       /\ ticks' = ticks + 1
       /\ elapsed' = 0
       /\ UNCHANGED << direction, isPaused, lastDirectionRef >>

moveSnake(draws) ==
  IF isPaused \/ isGameOver
  THEN UNCHANGED vars
  ELSE /\ MoveUpdate(draws)
       /\ lastDirectionRef' = direction
       /\ ticks' = ticks + 1
       /\ elapsed' = 0
       /\ UNCHANGED << direction, isPaused >>

\* The test each arrow key and arrow button makes before setDirection:
\* lastDirectionRef.current.y === 0 for up and down,
\* lastDirectionRef.current.x === 0 for left and right.
\* setDirection is given a new object, so every accepted submission changes
\* the state direction, hence moveSnake (useCallback), hence runs the effect
\* of the game loop again, which clears the interval and sets a new one.
SubmitDirection_Pending(d) ==
  /\ direction' = IF (IF d.x = 0 THEN direction.y = 0 ELSE direction.x = 0)
                  THEN d ELSE direction
  /\ elapsed' = IF (IF d.x = 0 THEN direction.y = 0 ELSE direction.x = 0)
                THEN 0 ELSE elapsed
  /\ UNCHANGED << snake, food, isGameOver, isPaused, score, highScore, speed,
                  lastDirectionRef, ticks >>

SubmitDirection(d) ==
  /\ direction' = IF (IF d.x = 0 THEN lastDirectionRef.y = 0 ELSE lastDirectionRef.x = 0)
                  THEN d ELSE direction
  /\ elapsed' = IF (IF d.x = 0 THEN lastDirectionRef.y = 0 ELSE lastDirectionRef.x = 0)
                THEN 0 ELSE elapsed
  /\ UNCHANGED << snake, food, isGameOver, isPaused, score, highScore, speed,
                  lastDirectionRef, ticks >>

\* if (!isGameOver) setIsPaused(p => !p)
TogglePause_NoGuard ==
  /\ isPaused' = ~isPaused
  /\ elapsed' = 0
  /\ UNCHANGED << snake, food, direction, isGameOver, score, highScore, speed,
                  lastDirectionRef, ticks >>

TogglePause_Set ==
  /\ isPaused' = IF ~isGameOver THEN TRUE ELSE isPaused
  /\ elapsed' = IF ~isGameOver THEN 0 ELSE elapsed
  /\ UNCHANGED << snake, food, direction, isGameOver, score, highScore, speed,
                  lastDirectionRef, ticks >>

TogglePause ==
  /\ isPaused' = IF ~isGameOver THEN ~isPaused ELSE isPaused
  /\ elapsed' = IF ~isGameOver THEN 0 ELSE elapsed
  /\ UNCHANGED << snake, food, direction, isGameOver, score, highScore, speed,
                  lastDirectionRef, ticks >>

Keys == { "ArrowUp", "ArrowDown", "ArrowLeft", "ArrowRight", " ", "Enter" }

handleKeyDown(key) ==
  CASE key = "ArrowUp" -> SubmitDirection(Up)
    [] key = "ArrowDown" -> SubmitDirection(Down)
    [] key = "ArrowLeft" -> SubmitDirection(Left)
    [] key = "ArrowRight" -> SubmitDirection(Right)
    [] key = " " -> TogglePause
    [] OTHER -> UNCHANGED vars

Buttons == { "ChevronUp", "ChevronLeft", "PlayPause", "ChevronRight", "ChevronDown" }

\* The onClick handlers of the five ControlButtons.
ControlButtonClick(button) ==
  CASE button = "ChevronUp" -> SubmitDirection(Up)
    [] button = "ChevronLeft" -> SubmitDirection(Left)
    [] button = "PlayPause" -> TogglePause
    [] button = "ChevronRight" -> SubmitDirection(Right)
    [] button = "ChevronDown" -> SubmitDirection(Down)

\* The RESUME button of the overlay: onClick={() => setIsPaused(false)}.
\* Setting the value isPaused already has renders nothing and runs no effect.
ResumeClick ==
  /\ isPaused' = FALSE
  /\ elapsed' = IF isPaused THEN 0 ELSE elapsed
  /\ UNCHANGED << snake, food, direction, isGameOver, score, highScore, speed,
                  lastDirectionRef, ticks >>

\* Every handler, at any time; the random draws range over WindowCells and a
\* session is followed for MaxTicks steps.  The clock is not followed here:
\* the interval may call moveSnake at any moment of a running session, which
\* covers a wait of every length (SpecTimer follows the wait).
Next ==
  \/ (ticks < MaxTicks /\ moveSnake(WindowCells))
  \/ \E key \in Keys : handleKeyDown(key)
  \/ \E button \in Buttons : ControlButtonClick(button)
  \/ ResumeClick
  \/ resetGame(WindowCells)

Spec == Init /\ [][Next]_vars

\* ------------------------------------------------------------ the clock
\* The same handlers with the wait of the interval followed in WaitParts
\* parts: the interval set by the effect of the game loop calls moveSnake
\* when the whole wait has passed.  A call of moveSnake in a paused or
\* finished session, which its guard answers, may come at any time.
\* TimerTicks steps of a session are followed.
WaitParts == 2

TimerTicks == 2

\* One part of the wait of the running interval passes.
TimePasses ==
  /\ ~isPaused
  /\ ~isGameOver
  /\ elapsed < WaitParts
  /\ elapsed' = elapsed + 1
  /\ UNCHANGED << snake, food, direction, isGameOver, isPaused, score, highScore,
                  speed, lastDirectionRef, ticks >>

NextTimer ==
  \/ TimePasses
  \/ /\ ticks < TimerTicks
     /\ (~isPaused /\ ~isGameOver) => elapsed = WaitParts
     /\ moveSnake(WindowCells)
  \/ \E key \in Keys : handleKeyDown(key)
  \/ \E button \in Buttons : ControlButtonClick(button)
  \/ ResumeClick
  \/ resetGame(WindowCells)

SpecTimer == Init /\ [][NextTimer]_vars

\* ------------------------------------------------------ a long session
\* The same handlers under one plan of play, followed far enough for the
\* tick interval to reach its floor: the player steers up, up, left for
\* FeastPeriods rounds (a staircase that does not cross itself within
\* GRID_SIZE rounds), then down and right into the snake's own body; the
\* timer ticks once the planned direction is pending; and each random draw
\* falls either on the cell the plan visits next or on the far cell
\* INITIAL_FOOD, which the staircase never visits.
FeastPeriods == 16

\* The direction the plan applies at step n of a session (n = 1, 2, ...).
PlanDirection(n) ==
  IF n <= 3 * FeastPeriods THEN (IF n % 3 = 0 THEN Left ELSE Up)
  ELSE IF n = 3 * FeastPeriods + 1 THEN Down
  ELSE Right

PlanKey(n) ==
  IF PlanDirection(n) = Up THEN "ArrowUp"
  ELSE IF PlanDirection(n) = Left THEN "ArrowLeft"
  ELSE IF PlanDirection(n) = Down THEN "ArrowDown"
  ELSE "ArrowRight"

PlanButton(n) ==
  IF PlanDirection(n) = Up THEN "ChevronUp"
  ELSE IF PlanDirection(n) = Left THEN "ChevronLeft"
  ELSE IF PlanDirection(n) = Down THEN "ChevronDown"
  ELSE "ChevronRight"

\* The draws of a step: the cell after the new head on the plan, or the far cell.
FeastDraws ==
  { NewHead(NewHead(snake[1], direction), PlanDirection(ticks + 2)), INITIAL_FOOD }

\* The draws of a reset: the cell ahead of the initial head, or the far cell.
FeastResetDraws ==
  { NewHead(INITIAL_SNAKE[1], INITIAL_DIRECTION), INITIAL_FOOD }

NextFeast ==
  \/ /\ ticks < 3 * FeastPeriods + 2
     /\ direction = PlanDirection(ticks + 1)
     /\ moveSnake(FeastDraws)
  \/ \E key \in { PlanKey(ticks + 1), " " } : handleKeyDown(key)
  \/ \E button \in { PlanButton(ticks + 1), "PlayPause" } : ControlButtonClick(button)
  \/ ResumeClick
  \/ resetGame(FeastResetDraws)

SpecFeast == Init /\ [][NextFeast]_vars

\* --------------------------------------------------- play at the edges
\* The same handlers in sessions that reach the edges of the grid: the
\* player turns freely during the first TurnTicks steps and whenever the
\* head is on an edge, and otherwise lets the snake run straight, for
\* EdgeTicks steps; the random draws fall on the edge rows and columns and
\* on the row and column of the initial head.
TurnTicks == 2

EdgeTicks == 14

EdgeDraws ==
  LET c == { 0, GRID_SIZE - 1, INITIAL_SNAKE[1].x } IN [x : c, y : c]

OnEdge(p) == p.x \in { 0, GRID_SIZE - 1 } \/ p.y \in { 0, GRID_SIZE - 1 }

MayTurn == ticks < TurnTicks \/ OnEdge(snake[1])

NextEdge ==
  \/ (ticks < EdgeTicks /\ moveSnake(EdgeDraws))
  \/ \E key \in Keys : (key = " " \/ MayTurn) /\ handleKeyDown(key)
  \/ \E button \in Buttons : (button = "PlayPause" \/ MayTurn) /\ ControlButtonClick(button)
  \/ ResumeClick
  \/ resetGame(EdgeDraws)

SpecEdge == Init /\ [][NextEdge]_vars

\* ------------------------------------------------- play until the grid is full
\* The same handlers under a plan that visits every cell of the grid once
\* per round: up the column of the head for GRID_SIZE - 1 steps, one step
\* left, and so on (the initial snake lies on this round, its tail on the
\* first cell of its column).  The timer ticks once the planned direction
\* is pending, each random draw falls on the cell the plan visits next, and
\* the player restarts only a session that has not moved yet.  FillTicks
\* steps of a session are followed.
FillTicks == 400

\* The direction the plan applies at step n of a session (n = 1, 2, ...).
FillDirection(n) == IF n % GRID_SIZE = GRID_SIZE - 2 THEN Left ELSE Up

DirectionKey(d) ==
  IF d = Up THEN "ArrowUp"
  ELSE IF d = Left THEN "ArrowLeft"
  ELSE IF d = Down THEN "ArrowDown"
  ELSE "ArrowRight"

DirectionButton(d) ==
  IF d = Up THEN "ChevronUp"
  ELSE IF d = Left THEN "ChevronLeft"
  ELSE IF d = Down THEN "ChevronDown"
  ELSE "ChevronRight"

\* The draw of a step: the cell after the new head on the plan.
FillDraws ==
  { NewHead(NewHead(snake[1], direction), FillDirection(ticks + 2)) }

\* The draw of a reset: the cell ahead of the initial head.
FillResetDraws == { NewHead(INITIAL_SNAKE[1], INITIAL_DIRECTION) }

NextFill ==
  \/ /\ ticks < FillTicks
     /\ direction = FillDirection(ticks + 1)
     /\ moveSnake(FillDraws)
  \/ \E key \in { DirectionKey(FillDirection(ticks + 1)), " " } : handleKeyDown(key)
  \/ \E button \in { DirectionButton(FillDirection(ticks + 1)), "PlayPause" } :
        ControlButtonClick(button)
  \/ ResumeClick
  \/ (ticks = 0 /\ resetGame(FillResetDraws))

SpecFill == Init /\ [][NextFill]_vars

\* ------------------------------------------------------------ properties
\* A transition in which moveSnake passed its guard and made a step.
Stepped == ~isPaused /\ ~isGameOver /\ ticks' = ticks + 1

\* A transition made by a reset: the step count of the session falls back,
\* or the food is redrawn although no step was made.
ResetTaken == ticks' < ticks \/ (ticks' = ticks /\ food' # food)

\* The cell a step from the current state moves the head to.
StepHead == NewHead(snake[1], direction)

\* A step that moves the head onto the food without hitting the snake.
EatStep == Stepped /\ StepHead \notin Range(snake) /\ StepHead = food

\* C1: within a session the direction applied by a step is never the exact
\* opposite of the direction applied by the previous step; the record the
\* check is made against (lastDirectionRef) is the direction the last step
\* applied: every step stores its direction there and nothing but a step or
\* a reset changes it.
C1_NoReversal ==
  [][ /\ Stepped => (direction # Opposite(lastDirectionRef) /\ lastDirectionRef' = direction)
      /\ (~Stepped /\ ~ResetTaken) => lastDirectionRef' = lastDirectionRef ]_vars

\* A session whose snake now heads the opposite way of its first heading,
\* which takes a turn applied by a step in between.
C1_Witness ==
  ticks >= 2 /\ lastDirectionRef = Opposite(INITIAL_DIRECTION) /\ ~isGameOver

\* C2: a step whose new head is a cell of the current snake sets isGameOver
\* and leaves snake, food, score, highScore and speed unchanged.
C2_CollisionEndsGame ==
  [][ (Stepped /\ StepHead \in Range(snake)) =>
        /\ isGameOver' = TRUE
        /\ snake' = snake
        /\ food' = food
        /\ score' = score
        /\ highScore' = highScore
        /\ speed' = speed ]_vars

\* The state a colliding step leaves: game over, and the cell ahead of the
\* head in the direction just applied is a cell of the snake.
C2_Witness ==
  isGameOver /\ NewHead(snake[1], lastDirectionRef) \in Range(snake)

\* C3: a non-colliding step prepends the new head; the length grows by one
\* when the new head is the food cell (tail kept) and is unchanged otherwise
\* (tail dropped); the snake is never shorter than 3.
C3_Length ==
  /\ [](Len(snake) >= 3)
  /\ [][ (Stepped /\ StepHead \notin Range(snake)) =>
           /\ snake'[1] = StepHead
           /\ IF StepHead = food
              THEN /\ snake' = << StepHead >> \o snake
                   /\ Len(snake') = Len(snake) + 1
              ELSE /\ snake' = << StepHead >> \o SubSeq(snake, 1, Len(snake) - 1)
                   /\ Len(snake') = Len(snake) ]_vars

\* A snake that has grown once and has also moved without growing.
C3_Witness == Len(snake) = 4 /\ ticks >= 3 /\ ~isGameOver

\* C4: the food cell is never one of the snake's cells.
C4_FoodOffSnake == \A i \in 1..Len(snake) : snake[i] # food

\* A second session (a reset placed the food) in which a step has eaten and
\* placed the food again, next to the grown snake.
C4_Witness ==
  /\ highScore > score
  /\ score > 0
  /\ \E d \in Directions : NewHead(snake[1], d) = food

\* C5: score is a non-negative multiple of 10 equal to 10 * (length - 3); a
\* food-consuming step adds exactly 10, a reset sets it to 0, nothing else
\* changes it.
C5_Score ==
  /\ [](score >= 0 /\ score % 10 = 0 /\ score = 10 * (Len(snake) - 3))
  /\ [][ IF EatStep THEN score' = score + 10
         ELSE IF ResetTaken THEN score' = 0
         ELSE score' = score ]_vars

\* A session with two foods eaten, after an earlier session was reset.
C5_Witness == score = 20 /\ highScore > 20

\* C6: highScore never decreases; a food-consuming step raises it to the new
\* score exactly when the new score exceeds it.
C6_HighScore ==
  [][ /\ highScore' >= highScore
      /\ EatStep => highScore' = (IF score + 10 > highScore THEN score + 10 ELSE highScore) ]_vars

\* A later session that has eaten without reaching the best score.
C6_Witness == score > 0 /\ highScore > score /\ ticks > 0

\* C7: the tick interval stays within [60, 150]; a food-consuming step sets
\* it to max(previous - 2, 60), strictly smaller unless it was at the floor;
\* any other step leaves it unchanged; only a reset raises it, to 150.
C7_Speed ==
  /\ [](speed >= 60 /\ speed <= 150)
  /\ [][ /\ EatStep => /\ speed' = (IF speed - 2 >= 60 THEN speed - 2 ELSE 60)
                       /\ (speed > 60 => speed' < speed)
                       /\ (speed = 60 => speed' = 60)
         /\ (Stepped /\ ~EatStep) => speed' = speed
         /\ speed' > speed => (ResetTaken /\ speed' = 150) ]_vars

\* The interval at its floor after a food was eaten while it was there.
C7_Witness == speed = 60 /\ score >= 460

\* C8: a reset sets the snake to the initial snake, the pending and the
\* last-applied direction to the initial direction, score to 0, the tick
\* interval to its initial value and isGameOver to false, and leaves
\* highScore unchanged.
C8_ResetEffect ==
  [][ ResetTaken =>
        /\ snake' = INITIAL_SNAKE
        /\ direction' = INITIAL_DIRECTION
        /\ lastDirectionRef' = INITIAL_DIRECTION
        /\ score' = 0
        /\ speed' = INITIAL_SPEED
        /\ isGameOver' = FALSE
        /\ highScore' = highScore ]_vars

\* A freshly reset session that keeps the best score of an earlier one.
C8_Witness ==
  /\ ticks = 0
  /\ highScore >= 20
  /\ snake = INITIAL_SNAKE
  /\ score = 0
  /\ speed = INITIAL_SPEED
  /\ food # INITIAL_FOOD

C10_GameOverTerminal ==
  [][ /\ (isGameOver /\ ~ResetTaken) =>
           /\ isGameOver' = TRUE
           /\ snake' = snake
           /\ food' = food
           /\ score' = score
           /\ highScore' = highScore
           /\ speed' = speed
           /\ isPaused' = isPaused
      /\ (~isGameOver /\ isGameOver') => (Stepped /\ StepHead \in Range(snake)) ]_vars

\* A game over in which a direction was submitted after the fatal step.
C10_Witness == isGameOver /\ direction # lastDirectionRef

\* A transition the pause signal can make: the space key or the pause button.
PauseSignal == handleKeyDown(" ") \/ ControlButtonClick("PlayPause")

\* C11: the pause toggle flips isPaused when isGameOver is false and does
\* nothing when it is true; in both cases snake, food, the pending and the
\* last-applied direction, score, highScore, speed and isGameOver stay.
C11_TogglePause ==
  /\ [](~isGameOver =>
          /\ ENABLED (handleKeyDown(" ") /\ isPaused' = ~isPaused)
          /\ ENABLED (ControlButtonClick("PlayPause") /\ isPaused' = ~isPaused))
  /\ [][ PauseSignal =>
           /\ isPaused' = (IF isGameOver THEN isPaused ELSE ~isPaused)
           /\ snake' = snake
           /\ food' = food
           /\ direction' = direction
           /\ lastDirectionRef' = lastDirectionRef
           /\ score' = score
           /\ highScore' = highScore
           /\ speed' = speed
           /\ isGameOver' = isGameOver ]_vars

\* A session paused in the middle of play, which only the toggle does.
C11_Witness == isPaused /\ ~isGameOver /\ ticks >= 2 /\ score > 0

\* C12: moveSnake called while isPaused or isGameOver changes nothing; and
\* from such a state nothing but a reset moves the snake, counts a step or
\* records a direction as applied.
C12_StepNoOp ==
  [][ /\ ((isPaused \/ isGameOver) /\ moveSnake(WindowCells)) =>
           UNCHANGED << snake, food, score, highScore, speed, isPaused,
                        isGameOver, direction, lastDirectionRef >>
      /\ ((isPaused \/ isGameOver) /\ ~ResetTaken) =>
           /\ ticks' = ticks
           /\ snake' = snake
           /\ food' = food
           /\ lastDirectionRef' = lastDirectionRef ]_vars

\* A paused session holding a submitted direction that no step has applied.
C12_Witness ==
  isPaused /\ ~isGameOver /\ ticks >= 1 /\ direction # lastDirectionRef

\* C14: the snake never holds the same cell twice.
C14_NoDuplicates ==
  \A i \in 1..Len(snake) : \A j \in 1..Len(snake) : i # j => snake[i] # snake[j]

\* A game ended by a step into the body of a snake of five cells.
C14_Witness == isGameOver /\ Len(snake) >= 5

\* C16: a step whose new head is the cell of the tail ends the game and
\* leaves the snake unchanged, also when the new head is not the food, i.e.
\* when the tail would have left that cell in the same step.
C16_TailCollision ==
  [][ (Stepped /\ StepHead = snake[Len(snake)]) =>
        (isGameOver' = TRUE /\ snake' = snake) ]_vars

\* A game ended by a step into the tail's cell, which was not the food.
C16_Witness ==
  /\ isGameOver
  /\ NewHead(snake[1], lastDirectionRef) = snake[Len(snake)]
  /\ food # snake[Len(snake)]

\* C19: highScore is never below score.
C19_HighScoreAtLeastScore == highScore >= score

\* A session whose score has caught up with the best score twice over.
C19_Witness == highScore = score /\ score >= 20

\* A coordinate one off the grid brought back to the opposite edge.
WrapCoord(c) == IF c < 0 THEN GRID_SIZE - 1 ELSE IF c > GRID_SIZE - 1 THEN 0 ELSE c

\* The cell next to cell p in direction d on the torus.
Neighbour(p, d) == [x |-> WrapCoord(p.x + d.x), y |-> WrapCoord(p.y + d.y)]

\* C13: every snake cell and the food have both coordinates in
\* [0, GRID_SIZE); a step moves the head to the neighbouring cell, which from
\* an edge outward is the cell on the opposite edge; when that cell is free
\* the game goes on, and the length is unchanged unless the cell is the food.
C13_Wrap ==
  /\ [](/\ \A i \in 1..Len(snake) :
             snake[i].x \in 0..(GRID_SIZE - 1) /\ snake[i].y \in 0..(GRID_SIZE - 1)
        /\ food.x \in 0..(GRID_SIZE - 1) /\ food.y \in 0..(GRID_SIZE - 1))
  /\ [][ (Stepped /\ Neighbour(snake[1], direction) \notin Range(snake)) =>
           /\ snake'[1] = Neighbour(snake[1], direction)
           /\ isGameOver' = FALSE
           /\ (Neighbour(snake[1], direction) # food => Len(snake') = Len(snake)) ]_vars

\* A snake of three cells whose head has just left the left edge and come
\* in on the right one.
C13_Witness ==
  /\ snake[1].x = GRID_SIZE - 1
  /\ snake[2].x = 0
  /\ Len(snake) = 3
  /\ ~isGameOver

\* C20: consecutive snake cells are neighbours on the torus; while the game
\* is not over the second cell is the head's neighbour against the
\* last-applied direction; and no step moves the head into the second cell.
C20_Contiguous ==
  /\ [](/\ \A i \in 1..(Len(snake) - 1) :
             \E d \in Directions : snake[i] = Neighbour(snake[i + 1], d)
        /\ ~isGameOver => snake[2] = Neighbour(snake[1], Opposite(lastDirectionRef)))
  /\ [][ Stepped => Neighbour(snake[1], direction) # snake[2] ]_vars

\* A grown snake lying across the left and right edges after a turn.
C20_Witness ==
  /\ ~isGameOver
  /\ Len(snake) >= 4
  /\ snake[1].x = GRID_SIZE - 1
  /\ snake[2].x = 0
  /\ snake[3].y # snake[2].y

\* C15 as stated: a submitted direction becomes the pending direction
\* whenever it is not the exact inverse of the last applied direction, so
\* that the latest such submission is the one the next step applies.
C15_LatestValidWins ==
  \A d \in Directions :
     d # Opposite(lastDirectionRef) => ENABLED (SubmitDirection(d) /\ direction' = d)

\* Every cell of the grid.
AllCells == [x : 0..(GRID_SIZE - 1), y : 0..(GRID_SIZE - 1)]

\* C18 as stated: whenever a step is about to request a food placement (the
\* session runs and the new head is the food), at least one cell of the grid
\* is not on the post-growth snake, so that the rejection loop of
\* generateFood returns.
C18_PlacementReturns ==
  (~isPaused /\ ~isGameOver /\ StepHead = food /\ StepHead \notin Range(snake)) =>
     LET occupied == Range(<< StepHead >> \o snake)
     IN  \E cell \in AllCells : cell \notin occupied

\* C17 as stated: in a running session, accepting a direction submission
\* neither cancels nor restarts the wait in flight.
C17_InputKeepsWait ==
  [][ (~isPaused /\ ~isGameOver /\ \E d \in Directions : SubmitDirection(d)) =>
        elapsed' = elapsed ]_vars

====
